---------------------------- MODULE Spec2Model ----------------------------
(***************************************************************************)
(* The LiveKit session controller of RPG-VCMC (features/livekit/join.ts,   *)
(* audio+video version) as a state machine.                                *)
(*                                                                         *)
(* JavaScript runs the module on one thread: the code between two awaits   *)
(* is one atomic step.  Every exported async function is a call record in  *)
(* `calls` whose pc names the await it is suspended at; one action resumes *)
(* it with an outcome of the awaited operation (success or a throw) and    *)
(* runs it to its next await, its return or its throw.  The awaited        *)
(* collaborators (config fetch, Firebase auth, the token endpoint, the     *)
(* livekit-client Room and local tracks, the DOM) are the environment.     *)
(***************************************************************************)
EXTENDS Integers, Sequences, FiniteSets, TLC

(***************************************************************************)
(* Bounds of the model.                                                    *)
(***************************************************************************)
MaxCalls == 2       \* API calls invoked in one run, overlapping at will
MaxSerialCalls == 2 \* API calls in one run, each awaited before the next
MaxRepeatCalls == 3 \* the same, in a room with one remote track
MaxEls   == 2       \* TrackSubscribed events (each may create an element) in one run
MaxDrops == 1       \* server-initiated disconnects in one run
MaxReqs  == 2       \* requests the token service receives in one run
MaxEarlyCalls == 2  \* API calls in one run whose connect has a resolved-not-resumed window
MaxClicks == 2      \* clicks on the panel's Join A/V button in one run
MaxRoomCalls == 3   \* createRoom and joinRoom calls in one run, overlapping at will

(***************************************************************************)
(* Strings are sequences of one-character strings, so that the template    *)
(* literal `${identity}:${sid}`, String.startsWith and the host regular    *)
(* expression are computed and not assumed.                                *)
(***************************************************************************)
ToLower(c) ==
  CASE c = "W" -> "w"
    [] c = "S" -> "s"
    [] OTHER   -> c

LowerStr(s) == [k \in 1..Len(s) |-> ToLower(s[k])]

StartsWith(s, p) ==
  /\ Len(p) <= Len(s)
  /\ \A k \in 1..Len(p) : s[k] = p[k]

\* /^wss?:\/\//i.test(host)
HostSchemeOk(host) ==
  LET h == LowerStr(host)
  IN  \/ StartsWith(h, <<"w", "s", ":", "/", "/">>)
      \/ StartsWith(h, <<"w", "s", "s", ":", "/", "/">>)

\* `${participantIdentity}:${sid}`
BindingKey(identity, sid) == identity \o <<":">> \o sid

(***************************************************************************)
(* Inputs.  Hosts are the values config.json may give livekit.host.        *)
(***************************************************************************)
Hosts == { <<"W", "s", "s", ":", "/", "/", "h">>,
           <<"h", "t", "t", "p", ":", "/", "/", "h">> }

\* Remote participants: identity and server-assigned participant sid (PA_..).
PA  == [identity |-> <<"a">>,           sid |-> <<"P", "1">>]
PAL == [identity |-> <<"a", "l">>,      sid |-> <<"P", "2">>]
PAB == [identity |-> <<"a", ":", "b">>, sid |-> <<"P", "3">>]
Participants == {PA, PAL, PAB}

\* Remote tracks: owner, server-assigned track sid (TR_..) and kind.
RemoteTrack(p, tsid, kind) == [p |-> p, sid |-> tsid, kind |-> kind]
AllRemoteTracks ==
  { RemoteTrack(PA,  <<"T", "1">>, "audio"),
    RemoteTrack(PAL, <<"T", "2">>, "audio"),
    RemoteTrack(PAB, <<"T", "3">>, "audio"),
    RemoteTrack(PA,  <<"T", "4">>, "video"),
    RemoteTrack(PAB, <<"T", "5">>, "video") }

Undefined == "undefined"
AudioDiv  == "audioDiv"       \* the page's container for remote <audio>
VideoGrid == "videoGrid"      \* the page's container for remote <video>
LocalVid  == "localVideo"     \* the page's <video> for the local preview

\* The `mounts` argument of joinLiveKit: which surfaces the caller passes.
MountChoices ==
  { [audio |-> TRUE,  video |-> TRUE,  local |-> TRUE],
    [audio |-> FALSE, video |-> FALSE, local |-> FALSE] }

VARIABLES
  configHost,              \* livekit.host in the config.json the site serves
  cfg,                     \* config.ts: the cached config (loaded FALSE: null)
  authUser,                \* auth.currentUser is set
  currentRoom,             \* join.ts: currentRoom (0: null, else a room id)
  audioContainerEl,        \* join.ts: the three mount references
  remoteVideoContainerEl,
  localVideoEl,
  audioEls,                \* join.ts: Map key -> element (a function)
  videoEls,
  audioKids,               \* elements whose parentNode is the audio container
  videoKids,               \* elements whose parentNode is the video container
  localPreview,            \* local track shown in the preview <video> (0: none)
  rooms,                   \* every Room constructed, by id
  tracks,                  \* every local capture track created, by id
  subscribed,              \* <<room, remote track>> currently subscribed
  world,                   \* remote tracks that exist in this run
  calls,                   \* every API call invoked, by order of invocation
  nextEl,                  \* TrackSubscribed events so far; an element made
                           \* by track.attach() takes its event's number
  drops,                   \* server-initiated disconnects so far
  server,                  \* the token service: its secrets, the membership
                           \* documents, the requests it has received
  panel,                   \* room_panel.tsx: avStatus, avError and the
                           \* handleJoinAV in progress
  store                    \* Firestore as rooms/api.ts uses it: the room
                           \* documents, the member documents, and the
                           \* createRoom and joinRoom calls made

vars == << configHost, cfg, authUser, currentRoom, audioContainerEl,
           remoteVideoContainerEl, localVideoEl, audioEls, videoEls,
           audioKids, videoKids, localPreview, rooms, tracks, subscribed,
           world, calls, nextEl, drops, server, panel, store >>

(***************************************************************************)
(* Maps (JavaScript Map) are functions; a binding is a pair of a Map and   *)
(* the children of the container its elements were appended to.            *)
(***************************************************************************)
EmptyMap == << >>

MapSet(m, k, v) == [x \in (DOMAIN m) \cup {k} |-> IF x = k THEN v ELSE m[x]]

MapDelete(m, k) == [x \in (DOMAIN m) \ {k} |-> m[x]]

MapValues(m) == { m[k] : k \in DOMAIN m }

Binding(els, kids) == [els |-> els, kids |-> kids]

\* const el = map.get(key); if (el?.parentNode) el.parentNode.removeChild(el);
\* map.delete(key)
DetachKey(b, key) ==
  Binding(MapDelete(b.els, key),
          IF key \in DOMAIN b.els THEN b.kids \ {b.els[key]} ELSE b.kids)

\* [...map.keys()].filter(k => k.startsWith(`${identity}:`)).forEach(remove)
DetachPrefix(b, identity) ==
  LET hit == { k \in DOMAIN b.els : StartsWith(k, identity \o <<":">>) }
  IN  Binding([k \in (DOMAIN b.els) \ hit |-> b.els[k]],
              b.kids \ { b.els[k] : k \in hit })

\* for (const [, el] of map) removeChild(el); map.clear()
DetachEvery(b) == Binding(EmptyMap, b.kids \ MapValues(b.els))

\* track.attach() makes a new element; appendChild; map.set(key, el)
AttachKey(b, key, el) == Binding(MapSet(b.els, key, el), b.kids \cup {el})

DetachRemoteAudio(b, participantIdentity, sid) ==
  DetachKey(b, BindingKey(participantIdentity, sid))

DetachAllRemoteAudioFor(b, participantIdentity) ==
  DetachPrefix(b, participantIdentity)

DetachAllRemoteAudio(b) == DetachEvery(b)

DetachRemoteVideo(b, participantIdentity, sid) ==
  DetachKey(b, BindingKey(participantIdentity, sid))

DetachAllRemoteVideoFor(b, participantIdentity) ==
  DetachPrefix(b, participantIdentity)

DetachAllRemoteVideo(b) == DetachEvery(b)

\* The audio and the video binding of the current state.
AudioB == Binding(audioEls, audioKids)
VideoB == Binding(videoEls, videoKids)

\* An attach that makes and records its element whatever the container is.
AttachRemoteAudioUnguarded(b, mount, track, participantIdentity, el) ==
  AttachKey(b, BindingKey(participantIdentity, track.sid), el)

\* attachRemoteAudio / attachRemoteVideo: nothing without a mounted container.
AttachRemoteAudio(b, mount, track, participantIdentity, el) ==
  IF mount = Undefined THEN b
  ELSE AttachKey(b, BindingKey(participantIdentity, track.sid), el)

AttachRemoteVideo(b, mount, track, participantIdentity, el) ==
  IF mount = Undefined THEN b
  ELSE AttachKey(b, BindingKey(participantIdentity, track.sid), el)

(***************************************************************************)
(* The three listeners joinLiveKit registers on its Room.  They are        *)
(* closures over the module's variables, not over the room.                *)
(***************************************************************************)
OnTrackSubscribedAudio(b, mount, track, participant, el) ==
  IF track.kind = "audio"
    THEN AttachRemoteAudio(b, mount, track, participant.identity, el)
    ELSE b

OnTrackSubscribedVideo(b, mount, track, participant, el) ==
  IF track.kind = "video"
    THEN AttachRemoteVideo(b, mount, track, participant.identity, el)
    ELSE b

\* An unsubscribe listener that sweeps the participant's bindings.
OnTrackUnsubscribedAudioByPrefix(b, track, participant) ==
  IF track.kind = "audio"
    THEN DetachAllRemoteAudioFor(b, participant.identity)
    ELSE b

\* The listener passes participant.sid where the key was built from track.sid.
OnTrackUnsubscribedAudio(b, track, participant) ==
  IF track.kind = "audio"
    THEN DetachRemoteAudio(b, participant.identity, participant.sid)
    ELSE b

OnTrackUnsubscribedVideo(b, track, participant) ==
  IF track.kind = "video"
    THEN DetachRemoteVideo(b, participant.identity, participant.sid)
    ELSE b

OnParticipantDisconnectedAudio(b, p) == DetachAllRemoteAudioFor(b, p.identity)

OnParticipantDisconnectedVideo(b, p) == DetachAllRemoteVideoFor(b, p.identity)

(***************************************************************************)
(* Rooms, local tracks and calls.                                          *)
(***************************************************************************)
\* new Room(): not connected, nothing published, no listener.
NewRoom == [state |-> "new", pubs |-> << >>, listening |-> FALSE, once |-> FALSE]

\* A Room on which nothing was registered when room.connect is called.
SilentRoom == [NewRoom EXCEPT !.state = "connecting"]

\* const room = new Room(); room.on(TrackSubscribed, ..).on(TrackUnsubscribed,
\* ..).on(ParticipantDisconnected, ..); room.connect(host, token) is called.
ListeningRoom == [NewRoom EXCEPT !.listening = TRUE, !.state = "connecting"]

NewTrack(kind) == [kind |-> kind, live |-> TRUE]

NoMounts == [audio |-> FALSE, video |-> FALSE, local |-> FALSE]

\* A call of an exported async function.  room: the Room a join constructed;
\* lroom, todo: leaveLiveKit's `room` and the rest of its `pubs` snapshot;
\* mic, cam: the local tracks the call created; croom: the room startCamera
\* read from currentRoom for publishTrack; fetched: the token endpoint got
\* this call's request; inflight: the calls still pending when this one was
\* made.
NewCall(op, mounts, publishVideo) ==
  [op |-> op, pc |-> "start", st |-> "pending", err |-> "", room |-> 0,
   lroom |-> 0, todo |-> << >>, mic |-> 0, cam |-> 0, croom |-> 0,
   mounts |-> mounts, publishVideo |-> publishVideo, fetched |-> FALSE,
   inflight |-> { k \in 1..Len(calls) : calls[k].st = "pending" }]

At(c, pc) == [c EXCEPT !.pc = pc]

\* A settled call keeps its outcome and what it created; its other locals
\* are dead.
Resolve(c) == [c EXCEPT !.pc = "done", !.st = "resolved",
                        !.lroom = 0, !.todo = << >>, !.croom = 0,
                        !.mounts = NoMounts, !.publishVideo = FALSE]

Reject(c, err) == [c EXCEPT !.pc = "done", !.st = "rejected", !.err = err,
                            !.lroom = 0, !.todo = << >>, !.croom = 0,
                            !.mounts = NoMounts, !.publishVideo = FALSE]

Pending(i) == i \in 1..Len(calls) /\ calls[i].st = "pending"

AnyPending == \E i \in 1..Len(calls) : calls[i].st = "pending"

\* calls with call i (a new one when i = Len(calls) + 1) set to c
PutCall(i, c) ==
  IF i = Len(calls) + 1 THEN Append(calls, c) ELSE [calls EXCEPT ![i] = c]

RoomIds == 1..Len(rooms)

Connected(r) == rooms[r].state = "connected"

\* getActiveRoom()
GetActiveRoom == currentRoom

SeqRange(q) == { q[k] : k \in 1..Len(q) }

SeqWithout(q, x) == SelectSeq(q, LAMBDA y : y # x)

\* LocalTrack.stop() on every track of ts
StopTracks(ts) == [t \in 1..Len(tracks) |->
                     IF t \in ts THEN [tracks[t] EXCEPT !.live = FALSE]
                     ELSE tracks[t]]

\* livekit-client, Room.handleDisconnect (stopTracks defaults to true): the room
\* unpublishes and stops its local publications and becomes Disconnected.
RoomClosed(r) == [rooms[r] EXCEPT !.state = "disconnected", !.pubs = << >>,
                                  !.once = FALSE]

\* config.ts: let cfg = null
NoConfig == [loaded |-> FALSE, host |-> << >>]

\* The token service with no secret, no membership document, no request.
NoServer == [secrets |-> FALSE, members |-> {}, reqs |-> << >>]

\* The room panel as mounted: useState('idle'), useState(''), no handler
\* running.  call: the API call handleJoinAV awaits.
IdlePanel == [avStatus |-> "idle", avError |-> "", pc |-> "none",
              roomId |-> "", call |-> 0, clicks |-> 0]

\* Firestore with no room, and no call of rooms/api.ts made.
EmptyStore == [rooms |-> << >>, members |-> << >>, ops |-> << >>]

\* The page's modules as loaded.
InitClient ==
  /\ panel = IdlePanel
  /\ store = EmptyStore
  /\ configHost \in Hosts
  /\ cfg = NoConfig
  /\ authUser = FALSE
  /\ currentRoom = 0
  /\ audioContainerEl = Undefined
  /\ remoteVideoContainerEl = Undefined
  /\ localVideoEl = Undefined
  /\ audioEls = EmptyMap
  /\ videoEls = EmptyMap
  /\ audioKids = {}
  /\ videoKids = {}
  /\ localPreview = 0
  /\ rooms = << >>
  /\ tracks = << >>
  /\ subscribed = {}
  /\ calls = << >>
  /\ nextEl = 0
  /\ drops = 0

\* The page as loaded; the token service is seen through fetch only.
InitBase == InitClient /\ server = NoServer

(***************************************************************************)
(* Groups of variables.                                                    *)
(***************************************************************************)
envVars    == << configHost, world, server, panel, store >>
mountVars  == << audioContainerEl, remoteVideoContainerEl, localVideoEl >>
bindVars   == << audioEls, videoEls, audioKids, videoKids >>

\* detachAllRemoteAudio(); detachAllRemoteVideo()
DetachAllBoth ==
  /\ audioEls'  = DetachAllRemoteAudio(AudioB).els
  /\ audioKids' = DetachAllRemoteAudio(AudioB).kids
  /\ videoEls'  = DetachAllRemoteVideo(VideoB).els
  /\ videoKids' = DetachAllRemoteVideo(VideoB).kids

\* audioContainerEl = undefined; remoteVideoContainerEl = undefined;
\* localVideoEl = undefined; currentRoom = null
ClearRefs ==
  /\ audioContainerEl' = Undefined
  /\ remoteVideoContainerEl' = Undefined
  /\ localVideoEl' = Undefined
  /\ currentRoom' = 0

\* joinLiveKit at `const cfg = await loadConfig()`: loadConfig returns the
\* cached config or fetches config.json.
AtLoadConfig(c) == At(c, IF cfg.loaded THEN "j_cfgc" ELSE "j_cfg")

(***************************************************************************)
(* leaveLiveKit.  It runs as a call of its own (op = "leave") or inside    *)
(* joinLiveKit's `if (currentRoom) await leaveLiveKit()` (op = "join").    *)
(***************************************************************************)
\* leaveLiveKit from its first line to its first await, currentRoom not null.
LeaveEnter(i, c) ==
  LET room == currentRoom
      pubs == rooms[room].pubs
  IN  IF pubs # << >>
        THEN /\ calls' = PutCall(i, [c EXCEPT !.pc = "l_unpub", !.lroom = room,
                                              !.todo = pubs])
             /\ UNCHANGED bindVars
        ELSE /\ calls' = PutCall(i, [c EXCEPT !.pc = "l_disc", !.lroom = room])
             /\ DetachAllBoth

\* what follows leaveLiveKit's return: the leave call resolves; joinLiveKit
\* goes on to loadConfig.
AfterLeave(c) ==
  IF c.op = "join"
    THEN AtLoadConfig([c EXCEPT !.lroom = 0, !.todo = << >>])
    ELSE Resolve(c)

InvokeLeave(limit) ==
  /\ Len(calls) < limit
  /\ LET i == Len(calls) + 1
         c == NewCall("leave", NoMounts, FALSE)
     IN  IF currentRoom = 0
           THEN calls' = Append(calls, Resolve(c)) /\ UNCHANGED bindVars
           ELSE LeaveEnter(i, c)
  /\ UNCHANGED << envVars, cfg, authUser, currentRoom, mountVars, localPreview,
                  rooms, tracks, subscribed, nextEl, drops >>

\* `await room.localParticipant.unpublishTrack(track, true)` settles; then
\* track.stop() and the next publication, or the catch that ends the loop.
LeaveUnpublished(i) ==
  /\ Pending(i)
  /\ calls[i].pc = "l_unpub"
  /\ \E ok \in BOOLEAN :
       LET c    == calls[i]
           t    == Head(c.todo)
           rest == IF ok THEN Tail(c.todo) ELSE << >>
       IN  /\ rooms' = IF ok
                         THEN [rooms EXCEPT ![c.lroom].pubs = SeqWithout(@, t)]
                         ELSE rooms
           /\ tracks' = IF ok THEN StopTracks({t}) ELSE tracks
           /\ calls' = [calls EXCEPT ![i] =
                          [c EXCEPT !.todo = rest,
                                    !.pc = IF rest # << >> THEN "l_unpub"
                                           ELSE "l_disc"]]
           /\ IF rest # << >> THEN UNCHANGED bindVars ELSE DetachAllBoth
  /\ UNCHANGED << envVars, cfg, authUser, currentRoom, mountVars, localPreview,
                  subscribed, nextEl, drops >>

\* `await room.disconnect()` settles (a throw is swallowed); a room that closes
\* emits Disconnected, which runs the listener of room.once if there is one;
\* then the references are cleared.
LeaveDisconnected(i) ==
  /\ Pending(i)
  /\ calls[i].pc = "l_disc"
  /\ \E ok \in BOOLEAN :
       LET c      == calls[i]
           r      == c.lroom
           closes == ok /\ rooms[r].state # "disconnected"
       IN  /\ rooms' = IF closes THEN [rooms EXCEPT ![r] = RoomClosed(r)] ELSE rooms
           /\ tracks' = IF closes THEN StopTracks(SeqRange(rooms[r].pubs)) ELSE tracks
           /\ subscribed' = IF closes THEN { x \in subscribed : x[1] # r }
                            ELSE subscribed
           /\ IF closes /\ rooms[r].once THEN DetachAllBoth ELSE UNCHANGED bindVars
           /\ ClearRefs
           /\ calls' = [calls EXCEPT ![i] = AfterLeave(c)]
  /\ UNCHANGED << envVars, cfg, authUser, localPreview, nextEl, drops >>

(***************************************************************************)
(* joinLiveKit.                                                            *)
(***************************************************************************)
RoomIdChoices == { "", "R1" }

\* A joinLiveKit that leaves the active session before it looks at roomId.
JoinInvokedLeaveFirst(limit, roomId, m, pv) ==
  /\ Len(calls) < limit
  /\ LET i == Len(calls) + 1
         c == NewCall("join", m, pv)
     IN  IF currentRoom # 0
           THEN LeaveEnter(i, c)
           ELSE /\ calls' = Append(calls, IF roomId = ""
                                            THEN Reject(c, "roomId is required")
                                            ELSE AtLoadConfig(c))
                /\ UNCHANGED bindVars
  /\ UNCHANGED << envVars, cfg, authUser, currentRoom, mountVars, localPreview,
                  rooms, tracks, subscribed, nextEl, drops >>

\* joinLiveKit(roomId, m, {publishVideo: pv}) from its first line to its
\* first await, as its caller's step runs it.
JoinEnter(limit, roomId, m, pv) ==
  /\ Len(calls) < limit
  /\ LET i == Len(calls) + 1
         c == NewCall("join", m, pv)
     IN  IF roomId = ""
           THEN /\ calls' = Append(calls, Reject(c, "roomId is required"))
                /\ UNCHANGED bindVars
           ELSE IF currentRoom # 0
             THEN LeaveEnter(i, c)
             ELSE /\ calls' = Append(calls, AtLoadConfig(c))
                  /\ UNCHANGED bindVars
  /\ UNCHANGED << cfg, authUser, currentRoom, mountVars, localPreview,
                  rooms, tracks, subscribed, nextEl, drops >>

\* joinLiveKit called by a page that does nothing else in the step.
JoinInvoked(limit, roomId, m, pv) ==
  JoinEnter(limit, roomId, m, pv) /\ UNCHANGED envVars

InvokeJoin(limit) ==
  \E roomId \in RoomIdChoices, m \in MountChoices, pv \in BOOLEAN :
    JoinInvoked(limit, roomId, m, pv)

\* `await loadConfig()` settles; then getAuth() and the sign-in or the ID token.
JoinConfig(i) ==
  /\ Pending(i)
  /\ calls[i].pc \in {"j_cfg", "j_cfgc"}
  /\ \E ok \in BOOLEAN :
       /\ ok \/ calls[i].pc = "j_cfg"
       /\ cfg' = IF ok /\ ~cfg.loaded
                  THEN [loaded |-> TRUE, host |-> configHost] ELSE cfg
       /\ calls' = [calls EXCEPT ![i] =
                      IF ~ok THEN Reject(@, "Missing config.json")
                      ELSE IF authUser THEN At(@, "j_idtoken")
                      ELSE At(@, "j_signin")]
  /\ UNCHANGED << envVars, authUser, currentRoom, mountVars, bindVars,
                  localPreview, rooms, tracks, subscribed, nextEl, drops >>

\* `await signInAnonymously(auth)` settles.
JoinSignIn(i) ==
  /\ Pending(i)
  /\ calls[i].pc = "j_signin"
  /\ \E ok \in BOOLEAN :
       /\ authUser' = (authUser \/ ok)
       /\ calls' = [calls EXCEPT ![i] =
                      IF ok THEN At(@, "j_idtoken")
                      ELSE Reject(@, "sign-in failed")]
  /\ UNCHANGED << envVars, cfg, currentRoom, mountVars, bindVars, localPreview,
                  rooms, tracks, subscribed, nextEl, drops >>

\* `await user.getIdToken()` settles; then fetch(tokenUrl) is issued.
JoinIdToken(i) ==
  /\ Pending(i)
  /\ calls[i].pc = "j_idtoken"
  /\ \E ok \in BOOLEAN :
       calls' = [calls EXCEPT ![i] =
                   IF ok THEN [At(@, "j_fetch") EXCEPT !.fetched = TRUE]
                   ELSE Reject(@, "getIdToken failed")]
  /\ UNCHANGED << envVars, cfg, authUser, currentRoom, mountVars, bindVars,
                  localPreview, rooms, tracks, subscribed, nextEl, drops >>

\* `await fetch(...)` settles: resp.ok, or a status that is not OK, whose body
\* is read (`await resp.text()`) for the error.
JoinFetch(i) ==
  /\ Pending(i)
  /\ calls[i].pc = "j_fetch"
  /\ \E resp \in {"ok", "not ok", "network error"} :
       calls' = [calls EXCEPT ![i] =
                   CASE resp = "ok"     -> At(@, "j_json")
                     [] resp = "not ok" -> At(@, "j_text")
                     [] OTHER           -> Reject(@, "fetch failed")]
  /\ UNCHANGED << envVars, cfg, authUser, currentRoom, mountVars, bindVars,
                  localPreview, rooms, tracks, subscribed, nextEl, drops >>

\* throw new Error(`Token endpoint ${resp.status}: ${await resp.text()}`)
JoinText(i) ==
  /\ Pending(i)
  /\ calls[i].pc = "j_text"
  /\ calls' = [calls EXCEPT ![i] = Reject(@, "Token endpoint status")]
  /\ UNCHANGED << envVars, cfg, authUser, currentRoom, mountVars, bindVars,
                  localPreview, rooms, tracks, subscribed, nextEl, drops >>

\* `await resp.json()` settles; the token and the host are checked; the mounts
\* are captured, the Room is constructed, its listeners registered and
\* room.connect(host, token) is called.
JoinJson(i) ==
  /\ Pending(i)
  /\ calls[i].pc = "j_json"
  /\ \E token \in BOOLEAN :
       LET c    == calls[i]
           host == cfg.host
           r    == Len(rooms) + 1
       IN  IF ~token
             THEN /\ calls' = [calls EXCEPT ![i] =
                                 Reject(c, "Token endpoint did not return token")]
                  /\ UNCHANGED << mountVars, rooms >>
           ELSE IF ~HostSchemeOk(host)
             THEN /\ calls' = [calls EXCEPT ![i] =
                                 Reject(c, "livekit.host must start with wss or ws")]
                  /\ UNCHANGED << mountVars, rooms >>
           ELSE /\ audioContainerEl' =
                     IF c.mounts.audio THEN AudioDiv ELSE Undefined
                /\ remoteVideoContainerEl' =
                     IF c.mounts.video THEN VideoGrid ELSE Undefined
                /\ localVideoEl' =
                     IF c.mounts.local THEN LocalVid ELSE Undefined
                /\ rooms' = Append(rooms, ListeningRoom)
                /\ calls' = [calls EXCEPT ![i] =
                               [At(c, "j_connect") EXCEPT !.room = r]]
  /\ UNCHANGED << envVars, cfg, authUser, currentRoom, bindVars, localPreview,
                  tracks, subscribed, nextEl, drops >>

\* livekit-client, Room.connect: the room becomes Connected and emits, in the
\* same task, the TrackSubscribed events of the tracks that arrived while it
\* was connecting; the promise of connect is resolved, the continuation of
\* `await room.connect(...)` has not run yet.
TransportUp(i) ==
  /\ Pending(i)
  /\ calls[i].pc = "j_connect"
  /\ rooms' = [rooms EXCEPT ![calls[i].room].state = "connected"]
  /\ calls' = [calls EXCEPT ![i] = At(@, "j_up")]
  /\ UNCHANGED << envVars, cfg, authUser, currentRoom, mountVars, bindVars,
                  localPreview, tracks, subscribed, nextEl, drops >>

\* `await room.connect(host, token)` settles; then room.startAudio() is called.
JoinConnect(i) ==
  /\ Pending(i)
  /\ calls[i].pc \in {"j_connect", "j_up"}
  /\ \E ok \in BOOLEAN :
       LET c == calls[i]
       IN  /\ ok \/ c.pc = "j_connect"
           /\ rooms' = IF c.pc = "j_up" THEN rooms
                       ELSE [rooms EXCEPT ![c.room].state =
                               IF ok THEN "connected" ELSE "disconnected"]
           /\ calls' = [calls EXCEPT ![i] =
                          IF ok THEN At(c, "j_audio")
                          ELSE Reject(c, "connect failed")]
  /\ UNCHANGED << envVars, cfg, authUser, currentRoom, mountVars, bindVars,
                  localPreview, tracks, subscribed, nextEl, drops >>

\* A join for which a throw of room.startAudio() is fatal.
StartAudioSettlesFatal(i, ok) ==
  /\ Pending(i)
  /\ calls[i].pc = "j_audio"
  /\ calls' = [calls EXCEPT ![i] = IF ok THEN At(@, "j_tracks")
                                   ELSE Reject(@, "startAudio failed")]
  /\ UNCHANGED << envVars, cfg, authUser, currentRoom, mountVars, bindVars,
                  localPreview, rooms, tracks, subscribed, nextEl, drops >>

\* `try { await room.startAudio() } catch {}` settles, resolved (ok) or by a
\* throw, which the empty catch drops; then createLocalTracks({audio}) is
\* called.
StartAudioSettles(i, ok) ==
  /\ Pending(i)
  /\ calls[i].pc = "j_audio"
  /\ calls' = [calls EXCEPT ![i] = At(@, "j_tracks")]
  /\ UNCHANGED << envVars, cfg, authUser, currentRoom, mountVars, bindVars,
                  localPreview, rooms, tracks, subscribed, nextEl, drops >>

JoinStartAudio(i) == \E ok \in BOOLEAN : StartAudioSettles(i, ok)

\* `await createLocalTracks(...)` settles; then publishTrack(mic) is called.
JoinTracks(i) ==
  /\ Pending(i)
  /\ calls[i].pc = "j_tracks"
  /\ \E ok \in BOOLEAN :
       LET c == calls[i]
           t == Len(tracks) + 1
       IN  /\ tracks' = IF ok THEN Append(tracks, NewTrack("audio")) ELSE tracks
           /\ calls' = [calls EXCEPT ![i] =
                          IF ok THEN [At(c, "j_pub") EXCEPT !.mic = t]
                          ELSE Reject(c, "microphone capture failed")]
  /\ UNCHANGED << envVars, cfg, authUser, currentRoom, mountVars, bindVars,
                  localPreview, rooms, subscribed, nextEl, drops >>

\* joinLiveKit's last lines: currentRoom = room; room.once(Disconnected, ...);
\* return room.  rs: the rooms as the step leaves them otherwise.
JoinFinish(i, c, rs) ==
  /\ currentRoom' = c.room
  /\ rooms' = [rs EXCEPT ![c.room].once = TRUE]
  /\ calls' = [calls EXCEPT ![i] = Resolve(c)]

\* publishTrack succeeds only on a connected room.
CanPublish(r) == Connected(r)

\* `await room.localParticipant.publishTrack(t)` settles; then the camera is
\* started if opts.publishVideo, or the session is saved.  startCamera begins
\* with `if (!currentRoom) throw new Error("Not connected")`.
JoinPublish(i) ==
  /\ Pending(i)
  /\ calls[i].pc = "j_pub"
  /\ \E ok \in BOOLEAN :
       LET c  == calls[i]
           rs == [rooms EXCEPT ![c.room].pubs = Append(@, c.mic)]
       IN  /\ ok => CanPublish(c.room)
           /\ IF ~ok
                THEN /\ calls' = [calls EXCEPT ![i] = Reject(c, "publishTrack failed")]
                     /\ UNCHANGED << rooms, currentRoom >>
              ELSE IF c.publishVideo
                THEN /\ calls' = [calls EXCEPT ![i] =
                                    IF currentRoom = 0 THEN Reject(c, "Not connected")
                                    ELSE At(c, "c_create")]
                     /\ rooms' = rs
                     /\ UNCHANGED currentRoom
              ELSE JoinFinish(i, c, rs)
  /\ UNCHANGED << envVars, cfg, authUser, mountVars, bindVars, localPreview,
                  tracks, subscribed, nextEl, drops >>

(***************************************************************************)
(* startCamera, called by joinLiveKit (op = "join") or by the page.        *)
(***************************************************************************)
\* startCamera without its first line: it asks for the camera whether or not a
\* session is active.
InvokeStartCameraNoGuard(limit) ==
  /\ Len(calls) < limit
  /\ calls' = Append(calls, At(NewCall("startCamera", NoMounts, FALSE), "c_create"))
  /\ UNCHANGED << envVars, cfg, authUser, currentRoom, mountVars, bindVars,
                  localPreview, rooms, tracks, subscribed, nextEl, drops >>

\* startCamera from its first line to its first await, as its caller's step
\* runs it.
StartCameraEnter(limit) ==
  /\ Len(calls) < limit
  /\ LET c == NewCall("startCamera", NoMounts, FALSE)
     IN  calls' = Append(calls, IF currentRoom = 0 THEN Reject(c, "Not connected")
                                ELSE At(c, "c_create"))
  /\ UNCHANGED << cfg, authUser, currentRoom, mountVars, bindVars,
                  localPreview, rooms, tracks, subscribed, nextEl, drops >>

InvokeStartCamera(limit) == StartCameraEnter(limit) /\ UNCHANGED envVars

\* `await createLocalVideoTrack(...)` settles; then
\* currentRoom.localParticipant.publishTrack(vtrack) reads currentRoom again:
\* null throws a TypeError.
CameraCreate(i) ==
  /\ Pending(i)
  /\ calls[i].pc = "c_create"
  /\ \E ok \in BOOLEAN :
       LET c == calls[i]
           t == Len(tracks) + 1
       IN  /\ tracks' = IF ok THEN Append(tracks, NewTrack("video")) ELSE tracks
           /\ calls' = [calls EXCEPT ![i] =
                          IF ~ok THEN Reject(c, "camera capture failed")
                          ELSE IF currentRoom = 0
                            THEN Reject([c EXCEPT !.cam = t], "TypeError: currentRoom is null")
                          ELSE [At(c, "c_pub") EXCEPT !.cam = t,
                                                      !.croom = currentRoom]]
  /\ UNCHANGED << envVars, cfg, authUser, currentRoom, mountVars, bindVars,
                  localPreview, rooms, subscribed, nextEl, drops >>

\* `await currentRoom.localParticipant.publishTrack(vtrack)` settles; then the
\* local preview; then startCamera returns, to joinLiveKit's last lines when
\* joinLiveKit called it.
CameraPublish(i) ==
  /\ Pending(i)
  /\ calls[i].pc = "c_pub"
  /\ \E ok \in BOOLEAN :
       LET c  == calls[i]
           rs == [rooms EXCEPT ![c.croom].pubs = Append(@, c.cam)]
       IN  /\ ok => CanPublish(c.croom)
           /\ localPreview' = IF ok /\ localVideoEl # Undefined THEN c.cam
                              ELSE localPreview
           /\ IF ~ok
                THEN /\ calls' = [calls EXCEPT ![i] = Reject(c, "publishTrack failed")]
                     /\ UNCHANGED << rooms, currentRoom >>
              ELSE IF c.op = "join"
                THEN JoinFinish(i, c, rs)
              ELSE /\ calls' = [calls EXCEPT ![i] = Resolve(c)]
                   /\ rooms' = rs
                   /\ UNCHANGED currentRoom
  /\ UNCHANGED << envVars, cfg, authUser, mountVars, bindVars, tracks,
                  subscribed, nextEl, drops >>

(***************************************************************************)
(* stopCamera.                                                             *)
(***************************************************************************)
\* [...currentRoom.localParticipant.videoTrackPublications.values()]
VideoPubs(r) == SelectSeq(rooms[r].pubs, LAMBDA t : tracks[t].kind = "video")

\* if (localVideoEl) { srcObject = null; removeAttribute("src"); load() }
ClearPreview ==
  localPreview' = IF localVideoEl # Undefined THEN 0 ELSE localPreview

\* stopCamera that takes every local publication, the microphone included.
InvokeStopCameraAllPubs(limit) ==
  /\ Len(calls) < limit
  /\ LET c == NewCall("stopCamera", NoMounts, FALSE)
     IN  IF currentRoom = 0
           THEN calls' = Append(calls, Resolve(c)) /\ UNCHANGED localPreview
           ELSE IF rooms[currentRoom].pubs = << >>
             THEN calls' = Append(calls, Resolve(c)) /\ ClearPreview
           ELSE /\ calls' = Append(calls, [c EXCEPT !.pc = "s_unpub",
                                                    !.todo = rooms[currentRoom].pubs,
                                                    !.croom = currentRoom])
                /\ UNCHANGED localPreview
  /\ UNCHANGED << envVars, cfg, authUser, currentRoom, mountVars, bindVars,
                  rooms, tracks, subscribed, nextEl, drops >>

\* stopCamera from its first line to its first await, or to its end when no
\* camera is published.
InvokeStopCamera(limit) ==
  /\ Len(calls) < limit
  /\ LET c == NewCall("stopCamera", NoMounts, FALSE)
     IN  IF currentRoom = 0
           THEN calls' = Append(calls, Resolve(c)) /\ UNCHANGED localPreview
           ELSE IF VideoPubs(currentRoom) = << >>
             THEN calls' = Append(calls, Resolve(c)) /\ ClearPreview
           ELSE /\ calls' = Append(calls, [c EXCEPT !.pc = "s_unpub",
                                                    !.todo = VideoPubs(currentRoom),
                                                    !.croom = currentRoom])
                /\ UNCHANGED localPreview
  /\ UNCHANGED << envVars, cfg, authUser, currentRoom, mountVars, bindVars,
                  rooms, tracks, subscribed, nextEl, drops >>

\* `await currentRoom.localParticipant.unpublishTrack(track, true)` settles: a
\* throw leaves stopCamera; else track.stop() and the next publication, for
\* which currentRoom is read again, or the preview is cleared.
StopUnpublished(i) ==
  /\ Pending(i)
  /\ calls[i].pc = "s_unpub"
  /\ \E ok \in BOOLEAN :
       LET c    == calls[i]
           t    == Head(c.todo)
           rest == Tail(c.todo)
       IN  IF ~ok
             THEN /\ calls' = [calls EXCEPT ![i] = Reject(c, "unpublishTrack failed")]
                  /\ UNCHANGED << rooms, tracks, localPreview >>
             ELSE /\ rooms' = [rooms EXCEPT ![c.croom].pubs = SeqWithout(@, t)]
                  /\ tracks' = StopTracks({t})
                  /\ IF rest # << >>
                       THEN /\ calls' = [calls EXCEPT ![i] =
                                   IF currentRoom = 0
                                     THEN Reject(c, "TypeError: currentRoom is null")
                                     ELSE [c EXCEPT !.todo = rest,
                                                    !.croom = currentRoom]]
                            /\ UNCHANGED localPreview
                       ELSE /\ calls' = [calls EXCEPT ![i] = Resolve(c)]
                            /\ ClearPreview
  /\ UNCHANGED << envVars, cfg, authUser, currentRoom, mountVars, bindVars,
                  subscribed, nextEl, drops >>

(***************************************************************************)
(* What the server pushes to a connected Room.                             *)
(***************************************************************************)
Emits(r) == r \in RoomIds /\ Connected(r) /\ rooms[r].listening

\* RoomEvent.TrackSubscribed -> onTrackSubscribed(track, pub, participant); a
\* room subscribes to a track whether or not a listener is registered.
TrackSubscribed(r, rt) ==
  /\ r \in RoomIds
  /\ Connected(r)
  /\ rt \in world
  /\ <<r, rt>> \notin subscribed
  /\ nextEl < MaxEls
  /\ LET el == nextEl + 1
         a  == IF rooms[r].listening
                 THEN OnTrackSubscribedAudio(AudioB, audioContainerEl, rt, rt.p, el)
                 ELSE AudioB
         v  == IF rooms[r].listening
                 THEN OnTrackSubscribedVideo(VideoB, remoteVideoContainerEl, rt, rt.p, el)
                 ELSE VideoB
     IN  /\ audioEls' = a.els
         /\ audioKids' = a.kids
         /\ videoEls' = v.els
         /\ videoKids' = v.kids
         /\ nextEl' = el
  /\ subscribed' = subscribed \cup {<<r, rt>>}
  /\ UNCHANGED << envVars, cfg, authUser, currentRoom, mountVars, localPreview,
                  rooms, tracks, calls, drops >>

\* RoomEvent.TrackUnsubscribed -> onTrackUnsubscribed(track, pub, participant)
TrackUnsubscribed(r, rt) ==
  /\ Emits(r)
  /\ <<r, rt>> \in subscribed
  /\ LET a == OnTrackUnsubscribedAudio(AudioB, rt, rt.p)
         v == OnTrackUnsubscribedVideo(VideoB, rt, rt.p)
     IN  /\ audioEls' = a.els
         /\ audioKids' = a.kids
         /\ videoEls' = v.els
         /\ videoKids' = v.kids
  /\ subscribed' = subscribed \ {<<r, rt>>}
  /\ UNCHANGED << envVars, cfg, authUser, currentRoom, mountVars, localPreview,
                  rooms, tracks, calls, nextEl, drops >>

\* RoomEvent.ParticipantDisconnected -> onParticipantDisconnected(p), after the
\* room has ended p's subscriptions.
ParticipantDisconnected(r, p) ==
  /\ Emits(r)
  /\ \E rt \in world : rt.p = p
  /\ \A rt \in world : rt.p = p => <<r, rt>> \notin subscribed
  /\ LET a == OnParticipantDisconnectedAudio(AudioB, p)
         v == OnParticipantDisconnectedVideo(VideoB, p)
     IN  /\ audioEls' = a.els
         /\ audioKids' = a.kids
         /\ videoEls' = v.els
         /\ videoKids' = v.kids
  /\ UNCHANGED << envVars, cfg, authUser, currentRoom, mountVars, localPreview,
                  rooms, tracks, subscribed, calls, nextEl, drops >>

\* A Disconnected listener that releases the audio side only: it leaves the
\* video map, the video container and the local preview reference alone.
ServerDisconnectAudioOnly(r) ==
  /\ r \in RoomIds
  /\ Connected(r)
  /\ drops < MaxDrops
  /\ drops' = drops + 1
  /\ rooms' = [rooms EXCEPT ![r] = RoomClosed(r)]
  /\ tracks' = StopTracks(SeqRange(rooms[r].pubs))
  /\ subscribed' = { x \in subscribed : x[1] # r }
  /\ IF rooms[r].once
       THEN /\ audioEls'  = DetachAllRemoteAudio(AudioB).els
            /\ audioKids' = DetachAllRemoteAudio(AudioB).kids
            /\ audioContainerEl' = Undefined
            /\ currentRoom' = 0
            /\ UNCHANGED << videoEls, videoKids, remoteVideoContainerEl,
                            localVideoEl >>
       ELSE UNCHANGED << bindVars, mountVars, currentRoom >>
  /\ UNCHANGED << envVars, cfg, authUser, localPreview, calls, nextEl >>

\* The transport reports itself disconnected (network loss, kick, shutdown):
\* RoomEvent.Disconnected runs the listener of room.once, if registered.
ServerDisconnect(r) ==
  /\ r \in RoomIds
  /\ Connected(r)
  /\ drops < MaxDrops
  /\ drops' = drops + 1
  /\ rooms' = [rooms EXCEPT ![r] = RoomClosed(r)]
  /\ tracks' = StopTracks(SeqRange(rooms[r].pubs))
  /\ subscribed' = { x \in subscribed : x[1] # r }
  /\ IF rooms[r].once
       THEN DetachAllBoth /\ ClearRefs
       ELSE UNCHANGED << bindVars, mountVars, currentRoom >>
  /\ UNCHANGED << envVars, cfg, authUser, localPreview, calls, nextEl >>

(***************************************************************************)
(* The token service, livekitToken: an HTTPS function.  Each request is    *)
(* handled by a call of its own, suspended at its awaits.                  *)
(***************************************************************************)
BearerPrefix == <<"B", "e", "a", "r", "e", "r", " ">>

\* The Authorization headers sent: none, the scheme alone, the scheme in
\* lower case, another scheme, and bearer tokens g, h (good) and x.
AuthzChoices ==
  { << >>,
    BearerPrefix,
    <<"b", "e", "a", "r", "e", "r", " ", "g">>,
    <<"B", "a", "s", "i", "c", " ", "g">>,
    BearerPrefix \o <<"g">>,
    BearerPrefix \o <<"h">>,
    BearerPrefix \o <<"x">> }

\* authz.match(/^Bearer (.+)$/)
BearerMatches(authz) ==
  Len(authz) > Len(BearerPrefix) /\ StartsWith(authz, BearerPrefix)

\* m[1]
BearerToken(authz) == SubSeq(authz, Len(BearerPrefix) + 1, Len(authz))

\* The ID tokens Firebase Auth verifies, with the uid each decodes to.
ValidTokens == { <<"g">>, <<"h">> }

DecodedUid(idToken) == IF idToken = <<"g">> THEN "u1" ELSE "u2"

\* String(req.query.room || "")
RoomParams == { "", "R1" }

\* fs.doc(`rooms/${room}/members/${uid}`)
MemberDoc(room, uid) == << room, uid >>

MemberDocs == { MemberDoc("R1", "u1"), MemberDoc("R1", "u2") }

\* The identity query parameter the client appends to the token URL
\* (join.ts: `&identity=${encodeURIComponent(user.uid)}`); a caller may send
\* any value.
IdentityParams == { "u1", "u2" }

\* tokenIdentity: the identity of the AccessToken in the 200 answer.
NewRequest(method, authz, room, identity) ==
  [method |-> method, authz |-> authz, room |-> room, identity |-> identity,
   pc |-> "start", uid |-> "", member |-> "unread", status |-> 0,
   minted |-> FALSE, tokenIdentity |-> ""]

\* res.status(code).json(...); return
Respond(q, code) == [q EXCEPT !.pc = "done", !.status = code]

PutRequest(k, q) ==
  server' = [server EXCEPT !.reqs =
               IF k = Len(@) + 1 THEN Append(@, q) ELSE [@ EXCEPT ![k] = q]]

ReqAt(k, pc) == k \in 1..Len(server.reqs) /\ server.reqs[k].pc = pc

clientVars == << configHost, world, cfg, authUser, currentRoom, mountVars,
                 bindVars, localPreview, rooms, tracks, subscribed, calls,
                 nextEl, drops, panel, store >>

\* The handler from its first line to `await verifyIdToken(idToken)`.
TokenRequest(limit) ==
  /\ Len(server.reqs) < limit
  /\ \E method \in {"GET", "OPTIONS"}, authz \in AuthzChoices, room \in RoomParams,
        identity \in IdentityParams :
       LET q == NewRequest(method, authz, room, identity)
       IN  PutRequest(Len(server.reqs) + 1,
             IF method = "OPTIONS" THEN Respond(q, 204)
             ELSE IF ~BearerMatches(authz) THEN Respond(q, 401)
             ELSE [q EXCEPT !.pc = "t_verify"])
  /\ UNCHANGED clientVars

\* `await admin.auth().verifyIdToken(idToken)` settles (a throw is caught: 401);
\* then the room parameter; then the membership document is read.
TokenVerify(k) ==
  /\ ReqAt(k, "t_verify")
  /\ \E ok \in BOOLEAN :
       LET q       == server.reqs[k]
           idToken == BearerToken(q.authz)
       IN  /\ ok => idToken \in ValidTokens
           /\ PutRequest(k,
                IF ~ok THEN Respond(q, 401)
                ELSE IF q.room = ""
                  THEN Respond([q EXCEPT !.uid = DecodedUid(idToken)], 400)
                ELSE [q EXCEPT !.uid = DecodedUid(idToken), !.pc = "t_member"])
  /\ UNCHANGED clientVars

\* The handler with the membership test left out.
TokenMemberNoCheck(k) ==
  /\ ReqAt(k, "t_member")
  /\ \E ok \in BOOLEAN :
       LET q == server.reqs[k]
       IN  PutRequest(k,
             IF ~ok THEN Respond(q, 401)
             ELSE IF ~server.secrets THEN Respond(q, 500)
             ELSE [q EXCEPT !.pc = "t_jwt"])
  /\ UNCHANGED clientVars

\* `await fs.doc(...).get()` settles (a throw is caught: 401); then the
\* membership, the secrets, and the token is built: `await at.toJwt()`.
TokenMember(k) ==
  /\ ReqAt(k, "t_member")
  /\ \E ok \in BOOLEAN :
       LET q      == server.reqs[k]
           exists == MemberDoc(q.room, q.uid) \in server.members
       IN  PutRequest(k,
             IF ~ok THEN Respond(q, 401)
             ELSE IF ~exists THEN Respond([q EXCEPT !.member = "no"], 403)
             ELSE IF ~server.secrets THEN Respond([q EXCEPT !.member = "yes"], 500)
             ELSE [q EXCEPT !.member = "yes", !.pc = "t_jwt"])
  /\ UNCHANGED clientVars

\* A handler that builds the token for the identity the query asks for.
TokenJwtQueryIdentity(k) ==
  /\ ReqAt(k, "t_jwt")
  /\ \E ok \in BOOLEAN :
       LET q == server.reqs[k]
       IN  PutRequest(k,
             IF ok THEN Respond([q EXCEPT !.minted = TRUE,
                                          !.tokenIdentity = q.identity], 200)
             ELSE Respond(q, 401))
  /\ UNCHANGED clientVars

\* new AccessToken(apiKey, apiSecret, { identity: uid }); `await at.toJwt()`
\* settles: 200 with the token, or the catch: 401.
TokenJwt(k) ==
  /\ ReqAt(k, "t_jwt")
  /\ \E ok \in BOOLEAN :
       LET q == server.reqs[k]
       IN  PutRequest(k,
             IF ok THEN Respond([q EXCEPT !.minted = TRUE,
                                          !.tokenIdentity = q.uid], 200)
             ELSE Respond(q, 401))
  /\ UNCHANGED clientVars

(***************************************************************************)
(* The room panel's Join A/V button: handleJoinAV.                         *)
(***************************************************************************)
hostVars == << configHost, world, server, store >>

apiVars == << cfg, authUser, currentRoom, mountVars, bindVars, localPreview,
              rooms, tracks, subscribed, calls, nextEl, drops >>

\* audioRef.current, remoteVideoRef.current, localVideoRef.current of the
\* rendered panel.
PanelMounts == [audio |-> TRUE, video |-> TRUE, local |-> TRUE]

\* catch (e) { setAvError(...); setAvStatus('idle') }
HandlerFailed(err) ==
  [panel EXCEPT !.avError = err, !.avStatus = "idle", !.pc = "none", !.call = 0]

\* The promise handleJoinAV awaits has settled: its continuation runs before
\* any event is delivered.
PanelReady ==
  /\ panel.pc \in {"h_join", "h_cam"}
  /\ calls[panel.call].st # "pending"

\* A click on Join A/V, which is rendered while getActiveRoom() is null and
\* enabled while avStatus is not 'joining'; handleJoinAV to its first await.
HandleJoinAV ==
  /\ panel.pc = "none"
  /\ panel.clicks < MaxClicks
  /\ GetActiveRoom = 0
  /\ \E roomId \in RoomIdChoices :
       panel' = IF roomId = ""
                  THEN [panel EXCEPT !.avError = "Enter or create a room first",
                                     !.clicks = @ + 1]
                  ELSE [panel EXCEPT !.avError = "", !.avStatus = "joining",
                                     !.pc = "h_preflight", !.roomId = roomId,
                                     !.clicks = @ + 1]
  /\ UNCHANGED << hostVars, apiVars >>

\* `await preflightCameraPermission()` settles; then joinLiveKit(roomId,
\* mounts, {publishVideo: false}) is called.
PanelPreflight ==
  /\ panel.pc = "h_preflight"
  /\ \E ok \in BOOLEAN :
       IF ok
         THEN /\ JoinEnter(2 * MaxClicks, panel.roomId, PanelMounts, FALSE)
              /\ panel' = [panel EXCEPT !.pc = "h_join", !.call = Len(calls) + 1]
              /\ UNCHANGED hostVars
         ELSE /\ panel' = HandlerFailed("NotAllowedError")
              /\ UNCHANGED << hostVars, apiVars >>

\* `await joinLiveKit(...)` settles; then room.startAudio() is called.
PanelJoin ==
  /\ panel.pc = "h_join"
  /\ calls[panel.call].st # "pending"
  /\ panel' = IF calls[panel.call].st = "rejected"
                THEN HandlerFailed(calls[panel.call].err)
                ELSE [panel EXCEPT !.pc = "h_audio", !.call = 0]
  /\ UNCHANGED << hostVars, apiVars >>

\* `try { await room.startAudio() } catch {}` settles either way; then
\* startCamera({facingMode: 'user'}) is called.
PanelAudio ==
  /\ panel.pc = "h_audio"
  /\ \E ok \in BOOLEAN :
       /\ StartCameraEnter(2 * MaxClicks)
       /\ panel' = [panel EXCEPT !.pc = "h_cam", !.call = Len(calls) + 1]
       /\ UNCHANGED hostVars

\* `await startCamera(...)` settles; then setAvStatus('joined'), or the catch.
PanelCam ==
  /\ panel.pc = "h_cam"
  /\ calls[panel.call].st # "pending"
  /\ panel' = IF calls[panel.call].st = "rejected"
                THEN HandlerFailed(calls[panel.call].err)
                ELSE [panel EXCEPT !.avStatus = "joined", !.pc = "none",
                                   !.call = 0]
  /\ UNCHANGED << hostVars, apiVars >>

(***************************************************************************)
(* rooms/api.ts: createRoom and joinRoom on Firestore.  A document is a    *)
(* function from field names to values; a collection is a function from    *)
(* document paths to documents.                                            *)
(***************************************************************************)
RoomCodes == { "R1", "R2" }

\* getAuth().currentUser.uid of the browsers that use the rooms.
Uids == { "u1", "u2" }

DisplayNames == { "Ann" }

\* doc(fs, 'rooms', roomId, 'members', uid)
MemberPath(roomId, uid) == << roomId, uid >>

\* setDoc(ref, data, { merge: true }): the fields of data replace those of the
\* document, its other fields stay.
MergeDoc(old, data) ==
  [f \in (DOMAIN old) \cup (DOMAIN data) |->
     IF f \in DOMAIN data THEN data[f] ELSE old[f]]

SetDocMerge(coll, path, data) ==
  MapSet(coll, path,
         IF path \in DOMAIN coll THEN MergeDoc(coll[path], data) ELSE data)

NewRoomCall(op, uid, roomId, displayName) ==
  [op |-> op, uid |-> uid, roomId |-> roomId, displayName |-> displayName,
   pc |-> "start", st |-> "pending", err |-> ""]

OpAt(k, pc) == k \in 1..Len(store.ops) /\ store.ops[k].pc = pc

OpDone(o, st, err) == [o EXCEPT !.pc = "done", !.st = st, !.err = err]

roomsFrame == << configHost, world, server, panel, apiVars >>

\* createRoom(roomId) by uid, to `await setDoc(doc(fs, 'rooms', roomId), ...)`.
CreateRoom(limit) ==
  /\ Len(store.ops) < limit
  /\ \E uid \in Uids, roomId \in RoomCodes :
       store' = [store EXCEPT !.ops =
                   Append(@, [NewRoomCall("create", uid, roomId, "")
                                EXCEPT !.pc = "r_room"])]
  /\ UNCHANGED roomsFrame

\* The room document is written, or setDoc throws; then the member document
\* of the creator is set.
CreateRoomSet(k) ==
  /\ OpAt(k, "r_room")
  /\ \E ok \in BOOLEAN :
       LET o == store.ops[k]
       IN  store' =
             IF ok
               THEN [store EXCEPT
                       !.rooms = SetDocMerge(@, o.roomId,
                                   [f \in {"code", "createdBy"} |->
                                      IF f = "code" THEN o.roomId ELSE o.uid]),
                       !.ops[k] = [o EXCEPT !.pc = "r_gm"]]
               ELSE [store EXCEPT !.ops[k] = OpDone(o, "rejected", "setDoc failed")]
  /\ UNCHANGED roomsFrame

\* `await setDoc(doc(fs, 'rooms', roomId, 'members', uid), {role: 'gm',
\* displayName: 'GM'}, {merge: true})` settles.
CreateMemberSet(k) ==
  /\ OpAt(k, "r_gm")
  /\ \E ok \in BOOLEAN :
       LET o == store.ops[k]
       IN  store' =
             IF ok
               THEN [store EXCEPT
                       !.members = SetDocMerge(@, MemberPath(o.roomId, o.uid),
                                     [f \in {"role", "displayName"} |->
                                        IF f = "role" THEN "gm" ELSE "GM"]),
                       !.ops[k] = OpDone(o, "resolved", "")]
               ELSE [store EXCEPT !.ops[k] = OpDone(o, "rejected", "setDoc failed")]
  /\ UNCHANGED roomsFrame

\* joinRoom(roomId, displayName) by uid, to `await getDoc(doc(fs, 'rooms',
\* roomId))`.
JoinRoom(limit) ==
  /\ Len(store.ops) < limit
  /\ \E uid \in Uids, roomId \in RoomCodes, displayName \in DisplayNames :
       store' = [store EXCEPT !.ops =
                   Append(@, [NewRoomCall("join", uid, roomId, displayName)
                                EXCEPT !.pc = "r_get"])]
  /\ UNCHANGED roomsFrame

\* A joinRoom that does not look at room.exists().
JoinRoomGotNoCheck(k, ok) ==
  /\ OpAt(k, "r_get")
  /\ LET o == store.ops[k]
     IN  store' = [store EXCEPT !.ops[k] =
                     IF ok THEN [o EXCEPT !.pc = "r_player"]
                     ELSE OpDone(o, "rejected", "getDoc failed")]
  /\ UNCHANGED roomsFrame

\* `await getDoc(...)` settles, with a snapshot (ok) or by a throw; then
\* `if (!room.exists()) throw new Error('Room not found')`, or the member
\* document of the caller is set.
JoinRoomGotWith(k, ok) ==
  /\ OpAt(k, "r_get")
  /\ LET o == store.ops[k]
     IN  store' = [store EXCEPT !.ops[k] =
                     IF ~ok THEN OpDone(o, "rejected", "getDoc failed")
                     ELSE IF o.roomId \notin DOMAIN store.rooms
                       THEN OpDone(o, "rejected", "Room not found")
                     ELSE [o EXCEPT !.pc = "r_player"]]
  /\ UNCHANGED roomsFrame

JoinRoomGot(k) == \E ok \in BOOLEAN : JoinRoomGotWith(k, ok)

\* `await setDoc(doc(fs, 'rooms', roomId, 'members', uid), {role: 'player',
\* displayName}, {merge: true})` settles.
JoinMemberSet(k) ==
  /\ OpAt(k, "r_player")
  /\ \E ok \in BOOLEAN :
       LET o == store.ops[k]
       IN  store' =
             IF ok
               THEN [store EXCEPT
                       !.members = SetDocMerge(@, MemberPath(o.roomId, o.uid),
                                     [f \in {"role", "displayName"} |->
                                        IF f = "role" THEN "player"
                                        ELSE o.displayName]),
                       !.ops[k] = OpDone(o, "resolved", "")]
               ELSE [store EXCEPT !.ops[k] = OpDone(o, "rejected", "setDoc failed")]
  /\ UNCHANGED roomsFrame

\* Every index a call or a room can have within the bounds.
CallIds == 1..(MaxCalls + MaxSerialCalls)

\* The steps that resume a suspended call.
Resume ==
  \E i \in CallIds :
    \/ JoinConfig(i) \/ JoinSignIn(i) \/ JoinIdToken(i) \/ JoinFetch(i)
    \/ JoinText(i) \/ JoinJson(i) \/ JoinConnect(i) \/ JoinStartAudio(i)
    \/ JoinTracks(i) \/ JoinPublish(i)
    \/ CameraCreate(i) \/ CameraPublish(i)
    \/ LeaveUnpublished(i) \/ LeaveDisconnected(i)

\* The step that resumes a suspended stopCamera.
ResumeStop == \E i \in CallIds : StopUnpublished(i)

\* The events of the rooms.
Events ==
  \E r \in CallIds :
    \/ \E rt \in AllRemoteTracks : TrackSubscribed(r, rt) \/ TrackUnsubscribed(r, rt)
    \/ \E p \in Participants : ParticipantDisconnected(r, p)
    \/ ServerDisconnect(r)

\* The page calls the API at any time, also while earlier calls are pending.
Init == InitBase /\ world = { RemoteTrack(PA, <<"T", "1">>, "audio") }

Next ==
  \/ InvokeJoin(MaxCalls)
  \/ InvokeLeave(MaxCalls)
  \/ InvokeStartCamera(MaxCalls)
  \/ Resume
  \/ Events

Spec == Init /\ [][Next]_vars

\* The page awaits every call to settlement before it makes the next.
InitSerial == InitBase /\ world = AllRemoteTracks

NextSerial ==
  \/ ~AnyPending /\ InvokeJoin(MaxSerialCalls)
  \/ ~AnyPending /\ InvokeLeave(MaxSerialCalls)
  \/ ~AnyPending /\ InvokeStartCamera(MaxSerialCalls)
  \/ Resume
  \/ Events

SpecSerial == InitSerial /\ [][NextSerial]_vars

\* The page awaits every call, makes one call more, stops the camera as
\* well, and the room has one remote track.
InitRepeat == Init

NextRepeat ==
  \/ ~AnyPending /\ InvokeJoin(MaxRepeatCalls)
  \/ ~AnyPending /\ InvokeLeave(MaxRepeatCalls)
  \/ ~AnyPending /\ InvokeStartCamera(MaxRepeatCalls)
  \/ ~AnyPending /\ InvokeStopCamera(MaxRepeatCalls)
  \/ Resume
  \/ ResumeStop
  \/ Events

SpecRepeat == InitRepeat /\ [][NextRepeat]_vars

\* The page calls the API at any time, the room has an audio and a video
\* track, and the tracks that arrive during connect are delivered before
\* joinLiveKit resumes.
InitEarly ==
  /\ InitBase
  /\ world = { RemoteTrack(PA, <<"T", "1">>, "audio"),
               RemoteTrack(PA, <<"T", "4">>, "video") }

NextEarly ==
  \/ InvokeJoin(MaxEarlyCalls)
  \/ InvokeLeave(MaxEarlyCalls)
  \/ InvokeStartCamera(MaxEarlyCalls)
  \/ \E i \in CallIds : TransportUp(i)
  \/ Resume
  \/ Events

SpecEarly == InitEarly /\ [][NextEarly]_vars

\* The page is the room panel: its Join A/V button is the only caller of the
\* API, in a room with one remote track.
InitPanel == Init

\* The steps that resume the calls handleJoinAV makes.
ResumeJoinAV ==
  \E i \in CallIds :
    \/ JoinConfig(i) \/ JoinSignIn(i) \/ JoinIdToken(i) \/ JoinFetch(i)
    \/ JoinText(i) \/ JoinJson(i) \/ JoinConnect(i) \/ JoinStartAudio(i)
    \/ JoinTracks(i) \/ JoinPublish(i)
    \/ CameraCreate(i) \/ CameraPublish(i)

NextPanel ==
  \/ HandleJoinAV
  \/ PanelPreflight
  \/ PanelJoin
  \/ PanelAudio
  \/ PanelCam
  \/ ResumeJoinAV
  \/ \E r \in CallIds, rt \in AllRemoteTracks : ~PanelReady /\ TrackSubscribed(r, rt)
  \/ \E r \in CallIds, rt \in AllRemoteTracks : ~PanelReady /\ TrackUnsubscribed(r, rt)
  \/ \E r \in CallIds, p \in Participants : ~PanelReady /\ ParticipantDisconnected(r, p)
  \/ \E r \in CallIds : ~PanelReady /\ ServerDisconnect(r)

SpecPanel == InitPanel /\ [][NextPanel]_vars

\* The rooms API alone: two users create and join rooms, their calls
\* overlapping at will.
InitRooms == InitBase /\ world = {}

RoomCallIds == 1..MaxRoomCalls

NextRooms ==
  \/ CreateRoom(MaxRoomCalls)
  \/ JoinRoom(MaxRoomCalls)
  \/ \E k \in RoomCallIds : CreateRoomSet(k)
  \/ \E k \in RoomCallIds : CreateMemberSet(k)
  \/ \E k \in RoomCallIds : JoinRoomGot(k)
  \/ \E k \in RoomCallIds : JoinMemberSet(k)

SpecRooms == InitRooms /\ [][NextRooms]_vars

\* The token service alone: a deployment (secrets set or not, some membership
\* documents) receiving requests, handled concurrently.
InitToken ==
  /\ InitClient
  /\ world = {}
  /\ \E secrets \in BOOLEAN, members \in SUBSET MemberDocs :
       server = [NoServer EXCEPT !.secrets = secrets, !.members = members]

ReqIds == 1..MaxReqs

NextToken ==
  \/ TokenRequest(MaxReqs)
  \/ \E k \in ReqIds : TokenVerify(k)
  \/ \E k \in ReqIds : TokenMember(k)
  \/ \E k \in ReqIds : TokenJwt(k)

SpecToken == InitToken /\ [][NextToken]_vars

(***************************************************************************)
(* Vocabulary of the claims.                                               *)
(***************************************************************************)
ConnectedRooms == { r \in RoomIds : Connected(r) }

LiveTracks == { t \in 1..Len(tracks) : tracks[t].live }

MountsUnset ==
  /\ audioContainerEl = Undefined
  /\ remoteVideoContainerEl = Undefined
  /\ localVideoEl = Undefined

MapsEmpty == audioEls = EmptyMap /\ videoEls = EmptyMap

ContainersEmpty == audioKids = {} /\ videoKids = {}

\* Call i settles with outcome st in this step.
Settles(i, st) ==
  /\ i \in 1..Len(calls')
  /\ calls'[i].st = st
  /\ i \in 1..Len(calls) => calls[i].st = "pending"

\* The local tracks call i created.
TracksOf(c) == { c.mic, c.cam } \ {0}

\* Why a join rejects: the credential (sign-in, ID token, token endpoint), the
\* host scheme, the transport.
CredentialErrors == { "sign-in failed", "getIdToken failed", "fetch failed",
                      "Token endpoint status",
                      "Token endpoint did not return token" }
SchemeError  == "livekit.host must start with wss or ws"
ConnectError == "connect failed"
AfterConnectErrors == { "microphone capture failed", "publishTrack failed",
                        "camera capture failed", "Not connected",
                        "TypeError: currentRoom is null" }

OnlyJoins == \A i \in 1..Len(calls) : calls[i].op = "join"

(***************************************************************************)
(* C1. Joins only, each awaited before the next: at most one Room is       *)
(* connected in every state, and when a join resolves getActiveRoom() is   *)
(* its room and every other room is disconnected with nothing published    *)
(* and the tracks of the earlier calls stopped.                            *)
(***************************************************************************)
C1_LastJoinOnly ==
  /\ [](OnlyJoins => Cardinality(ConnectedRooms) <= 1)
  /\ [][ \A i \in CallIds :
           (Settles(i, "resolved") /\ calls'[i].op = "join" /\ OnlyJoins')
           => /\ GetActiveRoom' = calls'[i].room
              /\ \A r \in 1..Len(rooms') :
                   r # calls'[i].room
                   => rooms'[r].state # "connected" /\ rooms'[r].pubs = << >>
              /\ \A j \in 1..(i - 1) : \A t \in TracksOf(calls'[j]) :
                   ~tracks'[t].live ]_vars

(***************************************************************************)
(* C2. Join J2 invoked while join J1 is suspended at an await, both        *)
(* resolving: once both have settled, J1's room is not connected,          *)
(* getActiveRoom() is J2's room and it is the only connected room.         *)
(***************************************************************************)
C2_OverlappingJoinTerminatesEarlier ==
  [][ \A i, j \in CallIds :
        ( /\ i < j /\ j \in 1..Len(calls')
          /\ calls'[i].op = "join" /\ calls'[j].op = "join"
          /\ i \in calls'[j].inflight
          /\ \A k \in 1..Len(calls') : k \in {i, j}
          /\ (Settles(i, "resolved") \/ Settles(j, "resolved"))
          /\ calls'[i].st = "resolved" /\ calls'[j].st = "resolved" )
        => /\ rooms'[calls'[i].room].state # "connected"
           /\ GetActiveRoom' = calls'[j].room
           /\ { r \in 1..Len(rooms') : rooms'[r].state = "connected" }
                \subseteq {calls'[j].room} ]_vars

\* No joinLiveKit call was made so far.
NeverJoined == \A i \in 1..Len(calls) : calls[i].op # "join"

\* The last call made was a leaveLiveKit and it resolved.
JustLeft ==
  /\ Len(calls) > 0
  /\ calls[Len(calls)].op = "leave"
  /\ calls[Len(calls)].st = "resolved"

(***************************************************************************)
(* C3. leaveLiveKit called with no active session, on a controller that    *)
(* never joined or right after a leaveLiveKit that resolved, resolves at   *)
(* once, does nothing to any room or track, and leaves getActiveRoom()     *)
(* null and both binding maps empty.                                       *)
(***************************************************************************)
C3_LeaveWhenIdle ==
  [][ ( /\ Len(calls') = Len(calls) + 1
        /\ calls'[Len(calls')].op = "leave"
        /\ GetActiveRoom = 0
        /\ (NeverJoined \/ JustLeft) )
      => /\ calls'[Len(calls')].st = "resolved"
         /\ rooms' = rooms /\ tracks' = tracks
         /\ GetActiveRoom' = 0
         /\ MapsEmpty' ]_vars

(***************************************************************************)
(* C4. A join that rejects for the host scheme, the credential or the      *)
(* connect leaves the controller idle: getActiveRoom() null, the three     *)
(* mount references unset, both binding maps empty.                        *)
(***************************************************************************)
C4_FailedJoinLeavesIdle ==
  [][ \A i \in CallIds :
        ( /\ Settles(i, "rejected") /\ calls'[i].op = "join"
          /\ calls'[i].err \in CredentialErrors \cup {SchemeError, ConnectError} )
        => GetActiveRoom' = 0 /\ MountsUnset' /\ MapsEmpty' ]_vars

(***************************************************************************)
(* C5. A join that rejects after room.connect succeeded leaves its room    *)
(* disconnected and every local track it created stopped.                  *)
(***************************************************************************)
C5_RejectedJoinReleases ==
  [][ \A i \in CallIds :
        ( /\ Settles(i, "rejected") /\ calls'[i].op = "join"
          /\ calls'[i].err \in AfterConnectErrors )
        => /\ rooms'[calls'[i].room].state # "connected"
           /\ \A t \in TracksOf(calls'[i]) : ~tracks'[t].live ]_vars

(***************************************************************************)
(* C6. With a livekit.host that is neither ws:// nor wss://, no join sends *)
(* a request to the token endpoint or constructs a Room.                   *)
(***************************************************************************)
C6_BadSchemeNoTokenRequest ==
  ~HostSchemeOk(configHost)
  => \A i \in 1..Len(calls) :
       calls[i].op = "join" => ~calls[i].fetched /\ calls[i].room = 0

(***************************************************************************)
(* C7. In a joined session with the surface of the track's kind mounted,   *)
(* TrackUnsubscribed for a subscribed track of participant P leaves no     *)
(* entry for (P.identity, track.sid) in the binding map of that kind and   *)
(* its element out of the container.                                       *)
(***************************************************************************)
KeyOf(rt) == BindingKey(rt.p.identity, rt.sid)

C7_UnsubscribeRemovesBinding ==
  [][ \A r \in CallIds : \A rt \in AllRemoteTracks :
        ( /\ TrackUnsubscribed(r, rt)
          /\ r = GetActiveRoom )
        => /\ (rt.kind = "audio" /\ audioContainerEl # Undefined)
              => /\ KeyOf(rt) \notin DOMAIN audioEls'
                 /\ KeyOf(rt) \in DOMAIN audioEls
                    => audioEls[KeyOf(rt)] \notin audioKids'
           /\ (rt.kind = "video" /\ remoteVideoContainerEl # Undefined)
              => /\ KeyOf(rt) \notin DOMAIN videoEls'
                 /\ KeyOf(rt) \in DOMAIN videoEls
                    => videoEls[KeyOf(rt)] \notin videoKids' ]_vars

(***************************************************************************)
(* C8. ParticipantDisconnected for P removes from both maps, and from the  *)
(* containers, exactly the entries made for P's tracks and no entry of     *)
(* another participant.                                                    *)
(***************************************************************************)
KeysOf(p) == { KeyOf(rt) : rt \in { x \in AllRemoteTracks : x.p = p } }

\* b without the entries of p
WithoutParticipant(b, p) ==
  Binding([k \in (DOMAIN b.els) \ KeysOf(p) |-> b.els[k]],
          b.kids \ { b.els[k] : k \in (DOMAIN b.els) \cap KeysOf(p) })

C8_ParticipantDisconnectedExact ==
  [][ \A r \in CallIds : \A p \in Participants :
        ParticipantDisconnected(r, p)
        => /\ AudioB' = WithoutParticipant(AudioB, p)
           /\ VideoB' = WithoutParticipant(VideoB, p) ]_vars

(***************************************************************************)
(* C9. Joins and leaves interleaved at will, every join resolved and a     *)
(* leave invoked last: once every call has settled no Room is connected,   *)
(* no local track is live and getActiveRoom() is null.                     *)
(***************************************************************************)
C9_LeaveLastReleasesAll ==
  ( /\ Len(calls) > 0
    /\ ~AnyPending
    /\ calls[Len(calls)].op = "leave"
    /\ \A i \in 1..Len(calls) :
         /\ calls[i].op \in {"join", "leave"}
         /\ calls[i].st = "resolved" )
  => ConnectedRooms = {} /\ LiveTracks = {} /\ GetActiveRoom = 0

(***************************************************************************)
(* C10. A leave of a joined session resolves, whichever of its steps       *)
(* throw, with getActiveRoom() null, both maps and both containers empty   *)
(* and the mount references unset.                                         *)
(***************************************************************************)
C10_LeaveReleasesAll ==
  [][ \A i \in CallIds :
        ( /\ i \in 1..Len(calls) /\ calls[i].op = "leave"
          /\ calls[i].st = "pending" /\ calls'[i].st # "pending" )
        => /\ calls'[i].st = "resolved"
           /\ GetActiveRoom' = 0
           /\ MapsEmpty' /\ ContainersEmpty' /\ MountsUnset' ]_vars


C12_JoinWithVideoPublishesCamera ==
  [][ /\ ( /\ Len(calls) >= 1
           /\ calls[1].op = "join" /\ calls[1].pc = "j_pub"
           /\ calls[1].publishVideo
           /\ calls[1].mic \in SeqRange(rooms'[calls[1].room].pubs) )
         => calls'[1].st # "rejected"
      /\ ( /\ Len(calls) >= 1
           /\ calls[1].op = "join" /\ calls[1].publishVideo
           /\ Settles(1, "resolved") )
         => /\ GetActiveRoom' = calls'[1].room
            /\ calls'[1].cam # 0
            /\ {calls'[1].mic, calls'[1].cam}
                 \subseteq SeqRange(rooms'[calls'[1].room].pubs) ]_vars

\* The first call of the run was joinLiveKit('R1', ...) with an audio
\* container; it resolved with room r, which is the active room, and no
\* other call was made since.
JoinedWithAudio(r) ==
  /\ Len(calls) = 1
  /\ calls[1].op = "join" /\ calls[1].st = "resolved" /\ calls[1].room = r
  /\ GetActiveRoom = r
  /\ audioContainerEl # Undefined

AudioTracks == { rt \in AllRemoteTracks : rt.kind = "audio" }

(***************************************************************************)
(* C13. The end-to-end scenario, step by step.  In a session joined with   *)
(* an audio container: the audio tracks of two participants subscribed     *)
(* one after the other give exactly their two bindings; the disconnect of  *)
(* one of the two leaves exactly the binding of the other, its element in  *)
(* the container; and a leaveLiveKit whose room.disconnect() closes the    *)
(* room, no event arriving meanwhile, leaves map and container empty, no   *)
(* room connected and getActiveRoom() null.                                *)
(***************************************************************************)
C13_EndToEndScenario ==
  [][ \A r \in CallIds : \A t1, t2 \in AudioTracks :
        t1.p # t2.p =>
        /\ ( /\ JoinedWithAudio(r)
             /\ audioEls = EmptyMap /\ audioKids = {}
             /\ TrackSubscribed(r, t1) )
           => DOMAIN audioEls' = {KeyOf(t1)}
        /\ ( /\ JoinedWithAudio(r)
             /\ DOMAIN audioEls = {KeyOf(t1)} /\ Cardinality(audioKids) = 1
             /\ TrackSubscribed(r, t2) )
           => /\ DOMAIN audioEls' = {KeyOf(t1), KeyOf(t2)}
              /\ Cardinality(audioKids') = 2
        /\ ( /\ JoinedWithAudio(r)
             /\ DOMAIN audioEls = {KeyOf(t1), KeyOf(t2)}
             /\ Cardinality(audioKids) = 2
             /\ ParticipantDisconnected(r, t1.p) )
           => /\ DOMAIN audioEls' = {KeyOf(t2)}
              /\ audioKids' = {audioEls[KeyOf(t2)]}
        /\ ( /\ Len(calls) = 2
             /\ calls[1].op = "join" /\ calls[1].st = "resolved"
             /\ calls[1].room = r
             /\ calls[2].op = "leave" /\ calls[2].pc = "l_disc"
             /\ audioEls = EmptyMap /\ audioKids = {}
             /\ LeaveDisconnected(2)
             /\ rooms'[r].state = "disconnected" )
           => /\ calls'[2].st = "resolved"
              /\ audioEls' = EmptyMap /\ audioKids' = {}
              /\ ConnectedRooms' = {}
              /\ GetActiveRoom' = 0 ]_vars

\* The local video tracks room r has published.
VideoPublished(r) == { t \in SeqRange(rooms[r].pubs) : tracks[t].kind = "video" }

\* The microphone of the join that made room r is published and live.
MicInPlace(r) ==
  \E j \in 1..Len(calls) :
    /\ calls[j].op = "join" /\ calls[j].room = r
    /\ calls[j].mic \in SeqRange(rooms[r].pubs)
    /\ tracks[calls[j].mic].live

(***************************************************************************)
(* C14. In a joined session with a local preview surface, a stopCamera     *)
(* that follows a startCamera which resolved, and that resolves with the   *)
(* session still joined, leaves no local video publication and the preview *)
(* surface cleared, the microphone still published and live.               *)
(***************************************************************************)
C14_StartThenStopCamera ==
  [][ \A i \in CallIds : \A r \in CallIds :
        ( /\ i >= 2 /\ i <= Len(calls')
          /\ calls'[i].op = "stopCamera" /\ Settles(i, "resolved")
          /\ calls'[i - 1].op = "startCamera" /\ calls'[i - 1].st = "resolved"
          /\ GetActiveRoom = r /\ GetActiveRoom' = r
          /\ r \in RoomIds /\ Connected(r)'
          /\ localVideoEl # Undefined )
        => /\ VideoPublished(r)' = {}
           /\ localPreview' = 0
           /\ MicInPlace(r)' ]_vars

\* join, startCamera, stopCamera, all resolved: the camera track is stopped
\* in a session that was never left.
C14_Witness ==
  /\ Len(calls) = 3
  /\ calls[1].op = "join" /\ calls[1].st = "resolved"
  /\ calls[2].op = "startCamera" /\ calls[2].st = "resolved"
  /\ calls[3].op = "stopCamera" /\ calls[3].st = "resolved"
  /\ GetActiveRoom = calls[1].room
  /\ Connected(calls[1].room)
  /\ localVideoEl # Undefined
  /\ ~tracks[calls[2].cam].live
  /\ localPreview = 0

(***************************************************************************)
(* C15. startCamera invoked while getActiveRoom() is null, also while a    *)
(* join is in flight, rejects at once with "Not connected": it creates no  *)
(* track, publishes nothing and changes nothing else.                      *)
(***************************************************************************)
C15_StartCameraNotConnected ==
  [][ ( /\ Len(calls') = Len(calls) + 1
        /\ calls'[Len(calls')].op = "startCamera"
        /\ GetActiveRoom = 0 )
      => /\ calls'[Len(calls')].st = "rejected"
         /\ calls'[Len(calls')].err = "Not connected"
         /\ calls'[Len(calls')].cam = 0
         /\ \A k \in 1..Len(calls) : calls'[k] = calls[k]
         /\ UNCHANGED << cfg, authUser, currentRoom, mountVars, bindVars,
                         localPreview, rooms, tracks, subscribed >> ]_vars

\* startCamera rejected while an earlier joinLiveKit is suspended at an await.
C15_Witness ==
  \E i, j \in 1..Len(calls) :
    /\ i < j
    /\ calls[i].op = "join" /\ calls[i].st = "pending"
    /\ calls[j].op = "startCamera" /\ calls[j].st = "rejected"
    /\ calls[j].err = "Not connected"
    /\ i \in calls[j].inflight

\* The bearer of request q is an ID token that verifies.
BearerVerifies(q) ==
  BearerMatches(q.authz) /\ BearerToken(q.authz) \in ValidTokens

\* The membership document of the caller of q for the room q asks for exists.
IsMember(q) ==
  /\ BearerVerifies(q)
  /\ MemberDoc(q.room, DecodedUid(BearerToken(q.authz))) \in server.members

(***************************************************************************)
(* C16. livekitToken answers 200, with a minted token, only to a request   *)
(* whose bearer ID token verifies, whose room is not empty and whose       *)
(* caller has a membership document for that room.  A request without a    *)
(* bearer, or with one that does not verify, gets 401; one whose bearer    *)
(* was verified and that names no room gets 400; one whose bearer was      *)
(* verified and whose membership read found no document gets 403.  No      *)
(* token is minted for any answer but 200.                                 *)
(***************************************************************************)
C16_TokenOnlyForMembers ==
  \A k \in 1..Len(server.reqs) :
    LET q == server.reqs[k]
    IN  /\ q.status = 200
           => q.minted /\ BearerVerifies(q) /\ q.room # "" /\ IsMember(q)
        /\ q.minted => q.status = 200
        /\ (q.method = "GET" /\ q.status # 0) =>
             /\ ~BearerVerifies(q) => q.status = 401
             /\ (q.uid # "" /\ q.room = "") => q.status = 400
             /\ (q.uid # "" /\ q.room # "" /\ ~IsMember(q) /\ q.member # "unread")
                => q.status = 403

\* One member was given a token and one caller who is no member was refused.
C16_Witness ==
  \E j, k \in 1..Len(server.reqs) :
    /\ server.reqs[j].status = 200 /\ server.reqs[j].minted
    /\ server.reqs[k].status = 403 /\ server.reqs[k].uid # ""
    /\ server.reqs[k].room = server.reqs[j].room

\* The run began with a joinLiveKit that resolved with room r and a
\* leaveLiveKit that resolved after it: r was the active room until that
\* leave, or until the server closed it.
LeftRoom(r) ==
  /\ Len(calls) >= 2
  /\ calls[1].op = "join" /\ calls[1].st = "resolved" /\ calls[1].room = r
  /\ calls[2].op = "leave" /\ calls[2].st = "resolved"

(***************************************************************************)
(* C17. An event that a room emits after leaveLiveKit has resolved for it  *)
(* changes neither binding map and neither container, also after a later   *)
(* joinLiveKit has mounted new surfaces.                                   *)
(***************************************************************************)
C17_NoEventAfterLeave ==
  [][ \A r \in CallIds :
        ( /\ LeftRoom(r)
          /\ \/ \E rt \in AllRemoteTracks :
                  TrackSubscribed(r, rt) \/ TrackUnsubscribed(r, rt)
             \/ \E p \in Participants : ParticipantDisconnected(r, p) )
        => UNCHANGED bindVars ]_vars

\* No binding map has an entry for remote track rt.
KeyAbsent(rt) == KeyOf(rt) \notin (DOMAIN audioEls) \cup (DOMAIN videoEls)

(***************************************************************************)
(* C18. TrackUnsubscribed for a participant and track whose key is in      *)
(* neither binding map leaves both maps and both containers as they are:   *)
(* in every state the listener applied to such a track returns the         *)
(* bindings unchanged, and every such event of a room changes none of      *)
(* them.                                                                   *)
(***************************************************************************)
C18_UnsubscribeUnknownKey ==
  /\ [](\A rt \in AllRemoteTracks :
          KeyAbsent(rt)
          => /\ OnTrackUnsubscribedAudio(AudioB, rt, rt.p) = AudioB
             /\ OnTrackUnsubscribedVideo(VideoB, rt, rt.p) = VideoB)
  /\ [][ \A r \in CallIds : \A rt \in AllRemoteTracks :
           (KeyAbsent(rt) /\ TrackUnsubscribed(r, rt))
           => UNCHANGED bindVars ]_vars

\* A session joined without containers in which every subscription made was
\* ended by TrackUnsubscribed: the room is still connected and was not left.
C18_Witness ==
  /\ Len(calls) = 1
  /\ calls[1].op = "join" /\ calls[1].st = "resolved"
  /\ GetActiveRoom = calls[1].room
  /\ Connected(calls[1].room)
  /\ audioContainerEl = Undefined
  /\ nextEl >= 1
  /\ subscribed = {}
  /\ MapsEmpty

(***************************************************************************)
(* C19. In leaveLiveKit, when the unpublishTrack of one local publication  *)
(* settles, by a throw as well, and publications remain in the snapshot,   *)
(* the next one is unpublished before the room is disconnected.            *)
(***************************************************************************)
C19_LeaveUnpublishesRest ==
  [][ \A i \in CallIds :
        ( /\ i \in 1..Len(calls)
          /\ calls[i].pc = "l_unpub"
          /\ Len(calls[i].todo) >= 2
          /\ calls'[i] # calls[i] )
        => /\ calls'[i].pc = "l_unpub"
           /\ calls'[i].todo = Tail(calls[i].todo) ]_vars

(***************************************************************************)
(* C20. In stopCamera, when the unpublishTrack of one local video          *)
(* publication settles, by a throw as well, the next publication of the    *)
(* snapshot is unpublished, and after the last one the local preview       *)
(* surface is cleared.                                                     *)
(***************************************************************************)
C20_StopCameraIsolatesFailures ==
  [][ \A i \in CallIds :
        ( /\ i \in 1..Len(calls)
          /\ calls[i].op = "stopCamera" /\ calls[i].pc = "s_unpub"
          /\ calls'[i] # calls[i] )
        => /\ Len(calls[i].todo) >= 2
              => /\ calls'[i].pc = "s_unpub"
                 /\ calls'[i].todo = Tail(calls[i].todo)
           /\ (Len(calls[i].todo) = 1 /\ localVideoEl # Undefined)
              => localPreview' = 0 ]_vars

\* Room r was constructed by a joinLiveKit call that has not settled.
JoinPendingFor(r) ==
  \E i \in 1..Len(calls) :
    calls[i].op = "join" /\ calls[i].st = "pending" /\ calls[i].room = r

\* The binding of remote track rt is in place: its key maps to an element
\* that is a child of the container.
Bound(els, kids, rt) == KeyOf(rt) \in DOMAIN els /\ els[KeyOf(rt)] \in kids

(***************************************************************************)
(* C21. While joinLiveKit awaits room.connect its room has the three       *)
(* listeners registered, and a TrackSubscribed event the room delivers     *)
(* while its joinLiveKit is suspended at connect or at a later await, with *)
(* the surface of the track's kind mounted, leaves the binding of the      *)
(* track in its map and its element in the container.                      *)
(***************************************************************************)
C21_EarlyEventsBound ==
  /\ [](\A i \in 1..Len(calls) :
          (calls[i].op = "join" /\ calls[i].pc \in {"j_connect", "j_up"})
          => rooms[calls[i].room].listening)
  /\ [][ \A r \in CallIds : \A rt \in AllRemoteTracks :
           (JoinPendingFor(r) /\ TrackSubscribed(r, rt))
           => /\ (rt.kind = "audio" /\ audioContainerEl # Undefined)
                 => Bound(audioEls', audioKids', rt)
              /\ (rt.kind = "video" /\ remoteVideoContainerEl # Undefined)
                 => Bound(videoEls', videoKids', rt) ]_vars

\* The only call is a joinLiveKit whose connect has not resumed, and the
\* audio and the video track delivered meanwhile are bound.
C21_Witness ==
  /\ Len(calls) = 1
  /\ calls[1].op = "join" /\ calls[1].pc = "j_up"
  /\ \E a, v \in world :
       /\ a.kind = "audio" /\ v.kind = "video"
       /\ {<<calls[1].room, a>>, <<calls[1].room, v>>} \subseteq subscribed
       /\ Bound(audioEls, audioKids, a)
       /\ Bound(videoEls, videoKids, v)

\* The binding map of the kind of remote track rt.
ElsOfKind(rt) == IF rt.kind = "audio" THEN audioEls ELSE videoEls

\* A session is joined and both containers are mounted.
JoinedBothMounted ==
  /\ GetActiveRoom # 0
  /\ audioContainerEl # Undefined
  /\ remoteVideoContainerEl # Undefined

(***************************************************************************)
(* C22. In every state of a joined session with both containers mounted,   *)
(* the binding map of a remote track's kind has an entry for (participant  *)
(* identity, track sid) if and only if the active room is subscribed to    *)
(* that track.                                                             *)
(***************************************************************************)
C22_BindingIffSubscribed ==
  JoinedBothMounted
  => \A rt \in AllRemoteTracks :
       KeyOf(rt) \in DOMAIN ElsOfKind(rt)
       <=> << GetActiveRoom, rt >> \in subscribed

\* The keys of map els' that this step set: new, or mapped to another element.
KeysSet(els, elsNext) ==
  { k \in DOMAIN elsNext : k \notin DOMAIN els \/ els[k] # elsNext[k] }

(***************************************************************************)
(* C23. Every step that sets an entry of the audio (video) binding map is  *)
(* taken with the audio (remote-video) container mounted and leaves the    *)
(* entry's element a child of the container; and a TrackSubscribed event   *)
(* for a track with no surface of its kind mounted changes nothing of the  *)
(* controller (bindings, containers, mount references, active room, calls, *)
(* rooms, local tracks) and fails no call.                                 *)
(***************************************************************************)
C23_NoBindingWithoutSurface ==
  [][ /\ \A k \in KeysSet(audioEls, audioEls') :
           audioContainerEl # Undefined /\ audioEls'[k] \in audioKids'
      /\ \A k \in KeysSet(videoEls, videoEls') :
           remoteVideoContainerEl # Undefined /\ videoEls'[k] \in videoKids'
      /\ \A r \in CallIds : \A rt \in AllRemoteTracks :
           ( /\ TrackSubscribed(r, rt)
             /\ \/ rt.kind = "audio" /\ audioContainerEl = Undefined
                \/ rt.kind = "video" /\ remoteVideoContainerEl = Undefined )
           => UNCHANGED << bindVars, mountVars, currentRoom, calls, rooms,
                           tracks, localPreview >> ]_vars

\* A session joined without surfaces whose room is subscribed to an audio
\* and to a video track: nothing was bound.
C23_Witness ==
  /\ Len(calls) = 1
  /\ calls[1].op = "join" /\ calls[1].st = "resolved"
  /\ GetActiveRoom = calls[1].room
  /\ MountsUnset
  /\ \E a, v \in world :
       /\ a.kind = "audio" /\ v.kind = "video"
       /\ {<<GetActiveRoom, a>>, <<GetActiveRoom, v>>} \subseteq subscribed
  /\ MapsEmpty /\ ContainersEmpty

\* The binding of the kind of remote track rt.
KindB(rt) == IF rt.kind = "audio" THEN AudioB ELSE VideoB

\* onTrackSubscribed(rt, pub, rt.p) applied to binding b of rt's kind, with
\* el the element track.attach() makes.
Handled(b, rt, el) ==
  IF rt.kind = "audio"
    THEN OnTrackSubscribedAudio(b, audioContainerEl, rt, rt.p, el)
    ELSE OnTrackSubscribedVideo(b, remoteVideoContainerEl, rt, rt.p, el)

(***************************************************************************)
(* C24. In every state, the TrackSubscribed listener applied twice to the  *)
(* same track leaves what one application leaves: the same keys, as many   *)
(* elements in the container, and a container whose elements are the       *)
(* values of the map if they were after the first application; and in      *)
(* every state the elements of each container are the values of its map.   *)
(***************************************************************************)
C24_SubscribeIdempotent ==
  /\ \A rt \in AllRemoteTracks :
       LET once  == Handled(KindB(rt), rt, nextEl + 1)
           twice == Handled(once, rt, nextEl + 2)
       IN  /\ DOMAIN twice.els = DOMAIN once.els
           /\ Cardinality(twice.kids) = Cardinality(once.kids)
           /\ once.kids = MapValues(once.els) => twice.kids = MapValues(twice.els)
  /\ audioKids = MapValues(audioEls)
  /\ videoKids = MapValues(videoEls)

(***************************************************************************)
(* C25. A throw of room.startAudio() in joinLiveKit is swallowed: the step *)
(* that takes it leaves the join pending, about to capture the microphone, *)
(* and is the very step a startAudio that resolved would take, so that the *)
(* rest of the join is the same.                                           *)
(***************************************************************************)
C25_StartAudioFailureSwallowed ==
  [][ \A i \in CallIds :
        StartAudioSettles(i, FALSE)
        => /\ StartAudioSettles(i, TRUE)
           /\ calls'[i].st = "pending"
           /\ calls'[i].pc = "j_tracks" ]_vars

\* A join past its audio unlock, settled either way, that published its
\* microphone and resolved with its room active and connected.
C25_Witness ==
  \E i \in 1..Len(calls) :
    /\ calls[i].op = "join" /\ calls[i].st = "resolved"
    /\ GetActiveRoom = calls[i].room
    /\ Connected(calls[i].room)
    /\ calls[i].mic \in SeqRange(rooms[calls[i].room].pubs)
    /\ tracks[calls[i].mic].live

\* Room r reports Disconnected, or a leaveLiveKit that took r as its room
\* runs its last lines.
TornDown(r) ==
  \/ ServerDisconnect(r)
  \/ \E i \in CallIds : LeaveDisconnected(i) /\ calls[i].lroom = r

(***************************************************************************)
(* C26. A Disconnected event of a room, or the last lines of a             *)
(* leaveLiveKit that was leaving it, taken while getActiveRoom() is        *)
(* another, newer room, leaves getActiveRoom(), the three mount references *)
(* and both bindings as they are.                                          *)
(***************************************************************************)
C26_OldRoomLeavesNewSession ==
  [][ \A r \in CallIds :
        ( /\ TornDown(r)
          /\ GetActiveRoom # 0
          /\ GetActiveRoom > r )
        => UNCHANGED << currentRoom, mountVars, bindVars >> ]_vars

\* A leaveLiveKit, called by the page or by joinLiveKit, is suspended at one
\* of its awaits.
LeaveInProgress ==
  \E i \in 1..Len(calls) :
    calls[i].st = "pending" /\ calls[i].pc \in {"l_unpub", "l_disc"}

(***************************************************************************)
(* C27. In every state in which getActiveRoom() returns a room and no      *)
(* leaveLiveKit is in progress, that room is connected.                    *)
(***************************************************************************)
C27_ActiveRoomConnected ==
  (GetActiveRoom # 0 /\ ~LeaveInProgress) => Connected(GetActiveRoom)

(***************************************************************************)
(* C28. When a startCamera call settles, resolved or rejected, the camera  *)
(* track it created, if any, is published in the active room or is         *)
(* stopped.                                                                *)
(***************************************************************************)
C28_CameraPublishedOrStopped ==
  [][ \A i \in CallIds :
        ( /\ i \in 1..Len(calls)
          /\ calls[i].op = "startCamera"
          /\ calls[i].st = "pending" /\ calls'[i].st # "pending"
          /\ calls'[i].cam # 0 )
        => \/ /\ GetActiveRoom' # 0
              /\ calls'[i].cam \in SeqRange(rooms'[GetActiveRoom'].pubs)
           \/ ~tracks'[calls'[i].cam].live ]_vars

(***************************************************************************)
(* C29. joinLiveKit called with an empty roomId rejects in the step of the *)
(* call with "roomId is required": it enters no leave, sends nothing to    *)
(* the token endpoint, constructs no Room, and leaves getActiveRoom(), the *)
(* mount references, the bindings, every room, every local track and every *)
(* other call as they are.                                                 *)
(***************************************************************************)
C29_EmptyRoomIdRejects ==
  [][ \A m \in MountChoices : \A pv \in BOOLEAN :
        JoinInvoked(MaxSerialCalls, "", m, pv)
        => /\ Len(calls') = Len(calls) + 1
           /\ calls'[Len(calls')].st = "rejected"
           /\ calls'[Len(calls')].err = "roomId is required"
           /\ ~calls'[Len(calls')].fetched
           /\ calls'[Len(calls')].room = 0
           /\ \A k \in 1..Len(calls) : calls'[k] = calls[k]
           /\ UNCHANGED << cfg, authUser, currentRoom, mountVars, bindVars,
                           localPreview, rooms, tracks, subscribed >> ]_vars

\* A joinLiveKit with an empty roomId was rejected during a live session,
\* which is still the active one, connected, its microphone published.
C29_Witness ==
  /\ Len(calls) = 2
  /\ calls[1].op = "join" /\ calls[1].st = "resolved"
  /\ calls[2].op = "join" /\ calls[2].st = "rejected"
  /\ calls[2].err = "roomId is required"
  /\ GetActiveRoom = calls[1].room
  /\ Connected(calls[1].room)
  /\ audioContainerEl # Undefined
  /\ calls[1].mic \in SeqRange(rooms[calls[1].room].pubs)
  /\ tracks[calls[1].mic].live

(***************************************************************************)
(* C30. The identity of every token livekitToken has minted is the uid its *)
(* bearer ID token decodes to, whatever the identity query parameter was;  *)
(* two requests answered with a token that have the same bearer and room   *)
(* and differ in that parameter have tokens of the same identity; and no   *)
(* request without a minted token has a token identity.                    *)
(***************************************************************************)
C30_TokenIdentityIsUid ==
  /\ \A k \in 1..Len(server.reqs) :
       LET q == server.reqs[k]
       IN  IF q.minted
             THEN /\ BearerVerifies(q)
                  /\ q.tokenIdentity = DecodedUid(BearerToken(q.authz))
             ELSE q.tokenIdentity = ""
  /\ \A j, k \in 1..Len(server.reqs) :
       ( /\ server.reqs[j].minted /\ server.reqs[k].minted
         /\ server.reqs[j].authz = server.reqs[k].authz
         /\ server.reqs[j].room = server.reqs[k].room )
       => server.reqs[j].tokenIdentity = server.reqs[k].tokenIdentity

\* Two requests of the same bearer for the same room, with different
\* identity parameters, were both answered with a token.
C30_Witness ==
  \E j, k \in 1..Len(server.reqs) :
    /\ server.reqs[j].minted /\ server.reqs[k].minted
    /\ server.reqs[j].authz = server.reqs[k].authz
    /\ server.reqs[j].room = server.reqs[k].room
    /\ server.reqs[j].identity # server.reqs[k].identity
    /\ server.reqs[j].identity # server.reqs[j].tokenIdentity

\* The local audio tracks published in some room.
MicsPublished ==
  { t \in 1..Len(tracks) :
      /\ tracks[t].kind = "audio"
      /\ \E r \in RoomIds : t \in SeqRange(rooms[r].pubs) }

\* handleJoinAV ends in its catch in this step.
JoinAVFails ==
  /\ panel.pc \in {"h_preflight", "h_join", "h_cam"}
  /\ panel'.pc = "none"
  /\ panel'.avStatus = "idle" /\ panel'.avError # ""

(***************************************************************************)
(* C31. When handleJoinAV ends in failure (avStatus back to 'idle',        *)
(* avError set), whichever of its steps failed, getActiveRoom() is null    *)
(* and no microphone track is published.                                   *)
(***************************************************************************)
C31_FailedJoinAVLeavesNoSession ==
  [][ JoinAVFails => (GetActiveRoom' = 0 /\ MicsPublished' = {}) ]_vars

(***************************************************************************)
(* C32. In every state, the user of every createRoom call that resolved    *)
(* has a member document in the room it created, with role 'gm'.           *)
(***************************************************************************)
C32_CreatorStaysGm ==
  \A k \in 1..Len(store.ops) :
    LET o == store.ops[k]
    IN  (o.op = "create" /\ o.st = "resolved")
        => /\ MemberPath(o.roomId, o.uid) \in DOMAIN store.members
           /\ store.members[MemberPath(o.roomId, o.uid)]["role"] = "gm"

\* The member documents this step wrote: new, or changed.
MembersWritten == KeysSet(store.members, store'.members)

(***************************************************************************)
(* C33. A joinRoom whose getDoc returns a snapshot for a room id with no   *)
(* room document rejects with 'Room not found' and writes no member        *)
(* document; every step that writes a member document writes it under a    *)
(* room whose document exists; and in every state every member document    *)
(* is under a room that exists.                                            *)
(***************************************************************************)
C33_NoMemberWithoutRoom ==
  /\ [](\A path \in DOMAIN store.members : path[1] \in DOMAIN store.rooms)
  /\ [][ /\ \A k \in RoomCallIds :
              ( /\ JoinRoomGotWith(k, TRUE)
                /\ store.ops[k].roomId \notin DOMAIN store.rooms )
              => /\ store'.ops[k].st = "rejected"
                 /\ store'.ops[k].err = "Room not found"
                 /\ store'.members = store.members
         /\ \A path \in MembersWritten : path[1] \in DOMAIN store.rooms ]_vars

\* A joinRoom was refused for a room that still does not exist, and a
\* joinRoom for a room that exists has written its member document.
C33_Witness ==
  \E j, k \in 1..Len(store.ops) :
    /\ store.ops[j].op = "join" /\ store.ops[j].err = "Room not found"
    /\ store.ops[j].roomId \notin DOMAIN store.rooms
    /\ \A u \in Uids : MemberPath(store.ops[j].roomId, u) \notin DOMAIN store.members
    /\ store.ops[k].op = "join" /\ store.ops[k].st = "resolved"
    /\ MemberPath(store.ops[k].roomId, store.ops[k].uid) \in DOMAIN store.members

=============================================================================
